---- MODULE Spec2Model ----
(***************************************************************************)
(* Model of src/main.go: a directory tree is walked and every              *)
(* non-directory entry is put into an S3 bucket under a key whose          *)
(* directory segments are replaced by truncated SHA-256 digests.           *)
(*                                                                         *)
(* Go strings are byte strings; they are modelled as sequences of byte     *)
(* values (0..255), so that splitting, joining, cleaning and hashing are   *)
(* computed on the same data the program computes them on.                 *)
(***************************************************************************)
EXTENDS Integers, Sequences, FiniteSets, TLC

(***************************************************************************)
(* Byte strings used by the program and by the bounded inputs.             *)
(***************************************************************************)
Separator == 47

SepStr == <<Separator>>

Dot == <<46>>

DotDot == <<46, 46>>

Empty == << >>

(***************************************************************************)
(* crypto/sha256.  A 32-bit word is a pair <<hi, lo>> of 16-bit halves, so *)
(* that every intermediate value stays inside TLC's integer range while    *)
(* additions are still taken modulo 2^32.                                  *)
(***************************************************************************)
RECURSIVE Xor16(_, _)
Xor16(a, b) ==
  IF a = 0 THEN b
  ELSE IF b = 0 THEN a
  ELSE 2 * Xor16(a \div 2, b \div 2) + ((a + b) % 2)

RECURSIVE And16(_, _)
And16(a, b) ==
  IF a = 0 \/ b = 0 THEN 0
  ELSE 2 * And16(a \div 2, b \div 2) + ((a % 2) * (b % 2))

Pow2(n) == 2 ^ n

WXor(x, y) == <<Xor16(x[1], y[1]), Xor16(x[2], y[2])>>

WAnd(x, y) == <<And16(x[1], y[1]), And16(x[2], y[2])>>

WNot(x) == <<65535 - x[1], 65535 - x[2]>>

WAdd(x, y) ==
  LET lo == x[2] + y[2]
      hi == x[1] + y[1] + (lo \div 65536)
  IN  <<hi % 65536, lo % 65536>>

\* rotate right by n, 0 < n < 16
RotrSmall(x, n) ==
  <<(x[1] \div Pow2(n)) + (x[2] % Pow2(n)) * Pow2(16 - n),
    (x[2] \div Pow2(n)) + (x[1] % Pow2(n)) * Pow2(16 - n)>>

Rotr(x, n) ==
  IF n = 0 THEN x
  ELSE IF n < 16 THEN RotrSmall(x, n)
  ELSE IF n = 16 THEN <<x[2], x[1]>>
  ELSE RotrSmall(<<x[2], x[1]>>, n - 16)

\* logical shift right by n, 0 < n < 16
Shr(x, n) ==
  <<x[1] \div Pow2(n), (x[2] \div Pow2(n)) + (x[1] % Pow2(n)) * Pow2(16 - n)>>

BigSigma0(x) == WXor(WXor(Rotr(x, 2), Rotr(x, 13)), Rotr(x, 22))

BigSigma1(x) == WXor(WXor(Rotr(x, 6), Rotr(x, 11)), Rotr(x, 25))

SmallSigma0(x) == WXor(WXor(Rotr(x, 7), Rotr(x, 18)), Shr(x, 3))

SmallSigma1(x) == WXor(WXor(Rotr(x, 17), Rotr(x, 19)), Shr(x, 10))

Ch(x, y, z) == WXor(WAnd(x, y), WAnd(WNot(x), z))

Maj(x, y, z) == WXor(WXor(WAnd(x, y), WAnd(x, z)), WAnd(y, z))

\* the 64 round constants, as <<hi, lo>> halves
ShaK ==
  << <<17034, 12184>>, <<28983, 17553>>, <<46528, 64463>>, <<59829, 56229>>,
     <<14678, 49755>>, <<23025, 4593>>, <<37439, 33444>>, <<43804, 24277>>,
     <<55303, 43672>>, <<4739, 23297>>, <<9265, 34238>>, <<21772, 32195>>,
     <<29374, 23924>>, <<32990, 45566>>, <<39900, 1703>>, <<49563, 61812>>,
     <<58523, 27073>>, <<61374, 18310>>, <<4033, 40390>>, <<9228, 41420>>,
     <<11753, 11375>>, <<19060, 33962>>, <<23728, 43484>>, <<30457, 35034>>,
     <<38974, 20818>>, <<43057, 50797>>, <<45059, 10184>>, <<48985, 32711>>,
     <<50912, 3059>>, <<54695, 37191>>, <<1738, 25425>>, <<5161, 10599>>,
     <<10167, 2693>>, <<11803, 8504>>, <<19756, 28156>>, <<21304, 3347>>,
     <<25866, 29524>>, <<30314, 2747>>, <<33218, 51502>>, <<37490, 11397>>,
     <<41663, 59553>>, <<43034, 26187>>, <<49739, 35696>>, <<51052, 20899>>,
     <<53650, 59417>>, <<54937, 1572>>, <<62478, 13701>>, <<4202, 41072>>,
     <<6564, 49430>>, <<7735, 27656>>, <<10056, 30540>>, <<13488, 48309>>,
     <<14620, 3251>>, <<20184, 43594>>, <<23452, 51791>>, <<26670, 28659>>,
     <<29839, 33518>>, <<30885, 25455>>, <<33992, 30740>>, <<36039, 520>>,
     <<37054, 65530>>, <<42064, 27883>>, <<48889, 41975>>, <<50801, 30962>> >>

\* the initial hash value
ShaH0 ==
  << <<27145, 58983>>, <<47975, 44677>>, <<15470, 62322>>, <<42319, 62778>>,
     <<20750, 21119>>, <<39685, 26764>>, <<8067, 55723>>, <<23520, 52505>> >>

RECURSIVE Zeros(_)
Zeros(n) == IF n <= 0 THEN << >> ELSE <<0>> \o Zeros(n - 1)

\* message || 0x80 || 0x00... || 64-bit big-endian bit length, a multiple of 64 bytes
ShaPad(msg) ==
  LET len  == Len(msg)
      bits == 8 * len
      fill == (119 - (len % 64)) % 64
  IN  msg \o <<128>> \o Zeros(fill) \o Zeros(4)
          \o << (bits \div 16777216) % 256, (bits \div 65536) % 256,
                (bits \div 256) % 256, bits % 256 >>

\* the i-th (1-based) big-endian word of a 64-byte block
BlockWord(block, i) ==
  << block[4 * i - 3] * 256 + block[4 * i - 2],
     block[4 * i - 1] * 256 + block[4 * i] >>

RECURSIVE ShaSchedule(_)
ShaSchedule(w) ==
  IF Len(w) >= 64 THEN w
  ELSE LET t == Len(w) + 1
           nw == WAdd(WAdd(SmallSigma1(w[t - 2]), w[t - 7]),
                      WAdd(SmallSigma0(w[t - 15]), w[t - 16]))
       IN  ShaSchedule(Append(w, nw))

RECURSIVE ShaRounds(_, _, _)
ShaRounds(s, w, t) ==
  IF t > 64 \/ Len(s) # 8 THEN s
  ELSE LET t1 == WAdd(WAdd(WAdd(s[8], BigSigma1(s[5])), Ch(s[5], s[6], s[7])),
                      WAdd(ShaK[t], w[t]))
           t2 == WAdd(BigSigma0(s[1]), Maj(s[1], s[2], s[3]))
       IN  ShaRounds(<<WAdd(t1, t2), s[1], s[2], s[3],
                       WAdd(s[4], t1), s[5], s[6], s[7]>>, w, t + 1)

ShaCompress(h, block) ==
  LET w == ShaSchedule([i \in 1..16 |-> BlockWord(block, i)])
      s == ShaRounds(h, w, 1)
  IN  [i \in 1..8 |-> WAdd(h[i], s[i])]

RECURSIVE ShaBlocks(_, _)
ShaBlocks(h, bytes) ==
  IF Len(bytes) < 64 THEN h
  ELSE ShaBlocks(ShaCompress(h, SubSeq(bytes, 1, 64)),
                 SubSeq(bytes, 65, Len(bytes)))

\* sha256.Sum256: the 32 digest bytes
Sum256(msg) ==
  LET h == ShaBlocks(ShaH0, ShaPad(msg))
  IN  [i \in 1..32 |->
         LET word == h[((i - 1) \div 4) + 1]
             half == IF ((i - 1) % 4) < 2 THEN word[1] ELSE word[2]
         IN  IF (i % 2) = 1 THEN half \div 256 ELSE half % 256]

\* encoding/hex: two lowercase hex digits per byte
HexDigit(n) == IF n < 10 THEN 48 + n ELSE 87 + n

HexEncodeToString(bytes) ==
  [i \in 1..(2 * Len(bytes)) |->
     LET b == bytes[(i + 1) \div 2]
     IN  IF (i % 2) = 1 THEN HexDigit(b \div 16) ELSE HexDigit(b % 16)]

\* HashFolderName as the code computes it: hex.EncodeToString(hash[:])[:16]
HashLen == 16

HashFolderNameCompute(folderName) ==
  SubSeq(HexEncodeToString(Sum256(folderName)), 1, HashLen)

(***************************************************************************)
(* strings.Split / strings.Join with a one-byte separator.                 *)
(***************************************************************************)
RECURSIVE SplitFrom(_, _, _)
\* the segments of s, cur being the bytes of the segment read so far
SplitFrom(s, sep, cur) ==
  IF s = << >> THEN <<cur>>
  ELSE IF Head(s) = sep THEN <<cur>> \o SplitFrom(Tail(s), sep, << >>)
  ELSE SplitFrom(Tail(s), sep, Append(cur, Head(s)))

StringsSplit(s, sep) == SplitFrom(s, sep, << >>)

RECURSIVE StringsJoin(_, _)
StringsJoin(parts, sep) ==
  IF parts = << >> THEN << >>
  ELSE IF Len(parts) = 1 THEN parts[1]
  ELSE parts[1] \o <<sep>> \o StringsJoin(Tail(parts), sep)

\* Go's s[lo:hi] with 0-based bounds
Slice(s, lo, hi) == SubSeq(s, lo + 1, hi)

(***************************************************************************)
(* path/filepath (Unix build): Clean, Join, Base, Dir, Rel.                *)
(***************************************************************************)
RECURSIVE CleanElems(_, _, _)
\* out is the stack of path elements kept so far
CleanElems(elems, out, rooted) ==
  IF elems = << >> THEN out
  ELSE LET e == Head(elems)
           rest == Tail(elems)
       IN  IF e = Empty \/ e = Dot THEN CleanElems(rest, out, rooted)
           ELSE IF e = DotDot
             THEN IF out # << >> /\ out[Len(out)] # DotDot
                    THEN CleanElems(rest, SubSeq(out, 1, Len(out) - 1), rooted)
                  ELSE IF ~rooted THEN CleanElems(rest, Append(out, DotDot), rooted)
                  ELSE CleanElems(rest, out, rooted)
           ELSE CleanElems(rest, Append(out, e), rooted)

FilepathClean(path) ==
  IF path = Empty THEN Dot
  ELSE LET rooted == path[1] = Separator
           out == CleanElems(StringsSplit(path, Separator), << >>, rooted)
       IN  IF rooted THEN SepStr \o StringsJoin(out, Separator)
           ELSE IF out = << >> THEN Dot
           ELSE StringsJoin(out, Separator)

\* filepath.Join(dir, name)
FilepathJoin(dir, name) ==
  IF dir # Empty THEN FilepathClean(dir \o SepStr \o name)
  ELSE IF name # Empty THEN FilepathClean(name)
  ELSE Empty

RECURSIVE StripTrailingSeps(_)
StripTrailingSeps(path) ==
  IF Len(path) > 0 /\ path[Len(path)] = Separator
    THEN StripTrailingSeps(SubSeq(path, 1, Len(path) - 1))
  ELSE path

RECURSIVE LastSepIndex(_, _)
\* the greatest 0-based index i <= from with path[i] the separator, or -1
LastSepIndex(path, from) ==
  IF from < 0 THEN -1
  ELSE IF path[from + 1] = Separator THEN from
  ELSE LastSepIndex(path, from - 1)

FilepathBase(path) ==
  IF path = Empty THEN Dot
  ELSE LET p == StripTrailingSeps(path)
           i == LastSepIndex(p, Len(p) - 1)
           b == IF i >= 0 THEN Slice(p, i + 1, Len(p)) ELSE p
       IN  IF b = Empty THEN SepStr ELSE b

FilepathDir(path) ==
  LET i == LastSepIndex(path, Len(path) - 1)
  IN  FilepathClean(Slice(path, 0, i + 1))

RECURSIVE NextSepIndex(_, _)
\* the least 0-based index i >= from with s[i] the separator, or Len(s)
NextSepIndex(s, from) ==
  IF from >= Len(s) THEN Len(s)
  ELSE IF s[from + 1] = Separator THEN from
  ELSE NextSepIndex(s, from + 1)

RECURSIVE RelScan(_, _, _, _, _, _)
\* positions base[b0:bi] and targ[t0:ti] at the first differing elements
RelScan(base, targ, b0, bi, t0, ti) ==
  IF ~(bi < Len(base) /\ ti < Len(targ)) THEN <<b0, bi, t0, ti>>
  ELSE LET bj == NextSepIndex(base, bi)
           tj == NextSepIndex(targ, ti)
       IN  IF Slice(targ, t0, tj) # Slice(base, b0, bj) THEN <<b0, bj, t0, tj>>
           ELSE LET bk == IF bj < Len(base) THEN bj + 1 ELSE bj
                    tk == IF tj < Len(targ) THEN tj + 1 ELSE tj
                IN  RelScan(base, targ, bk, bk, tk, tk)

RECURSIVE DotDots(_)
\* "/.." repeated n times
DotDots(n) == IF n <= 0 THEN << >> ELSE SepStr \o DotDot \o DotDots(n - 1)

CountSeps(s) == Cardinality({i \in 1..Len(s) : s[i] = Separator})

\* filepath.Rel: [path, err]; on error the path is the empty string
FilepathRel(basepath, targpath) ==
  LET base0 == FilepathClean(basepath)
      targ == FilepathClean(targpath)
      base == IF base0 = Dot THEN Empty ELSE base0
      baseSlashed == Len(base) > 0 /\ base[1] = Separator
      targSlashed == Len(targ) > 0 /\ targ[1] = Separator
      pos == RelScan(base, targ, 0, 0, 0, 0)
      b0 == pos[1]
      bi == pos[2]
      t0 == pos[3]
      bl == Len(base)
      tl == Len(targ)
  IN  IF targ = base0 THEN [path |-> Dot, err |-> "nil"]
      ELSE IF baseSlashed # targSlashed THEN [path |-> Empty, err |-> "rel"]
      ELSE IF Slice(base, b0, bi) = DotDot THEN [path |-> Empty, err |-> "rel"]
      ELSE IF b0 # bl
        THEN [path |-> DotDot \o DotDots(CountSeps(Slice(base, b0, bl)))
                         \o (IF t0 # tl THEN SepStr \o Slice(targ, t0, tl) ELSE Empty),
              err |-> "nil"]
      ELSE [path |-> Slice(targ, t0, tl), err |-> "nil"]

\* sort.Strings order: bytewise lexicographic
RECURSIVE LexLeq(_, _)
LexLeq(a, b) ==
  IF a = << >> THEN TRUE
  ELSE IF b = << >> THEN FALSE
  ELSE IF Head(a) # Head(b) THEN Head(a) < Head(b)
  ELSE LexLeq(Tail(a), Tail(b))

RECURSIVE SortStrings(_)
SortStrings(S) ==
  IF S = {} THEN << >>
  ELSE LET m == CHOOSE x \in S : \A y \in S : LexLeq(x, y)
       IN  <<m>> \o SortStrings(S \ {m})

(***************************************************************************)
(* Bounded inputs: the names, the roots and the directory trees.           *)
(***************************************************************************)
MaxDepth == 2

MaxEntries == 4

MaxSegs == 3

NameA == <<97>>

NameB == <<98>>

NameF == <<102>>

NameG == <<103>>

NameR == <<114>>

DirNames == {NameA, NameB}

FileNames == {NameF, NameG}

\* "r", "." and "/r/": relative, the current directory, absolute and not clean
Roots == {NameR, Dot, SepStr \o NameR \o SepStr}

\* every segment a path of the bounded inputs can contain
KnownSegments == DirNames \cup FileNames \cup {NameR, Dot, DotDot, Empty}

\* an entry of the tree is named by its names below the root (rel)
RootDir == [rel |-> << >>, kind |-> "dir"]

RootFile == [rel |-> << >>, kind |-> "file"]

DirRels == UNION {[1..n -> DirNames] : n \in 0..MaxDepth}

CandidateEntries ==
  {[rel |-> d, kind |-> "dir"] : d \in DirRels \ {<< >>}}
    \cup {[rel |-> Append(d[1], d[2]), kind |-> "file"] : d \in DirRels \X FileNames}

ParentRel(rel) == SubSeq(rel, 1, Len(rel) - 1)

Addable(t) ==
  {c \in CandidateEntries :
     /\ c \notin t
     /\ [rel |-> ParentRel(c.rel), kind |-> "dir"] \in t}

RECURSIVE TreesOfSize(_)
\* the trees with a directory as root and n entries below it
TreesOfSize(n) ==
  IF n = 0 THEN {{RootDir}}
  ELSE UNION {{t \cup {c} : c \in Addable(t)} : t \in TreesOfSize(n - 1)}

Trees == UNION {TreesOfSize(n) : n \in 0..MaxEntries}

Unset == "<unset>"

EnvVars == {"S3_BUCKET_NAME", "AWS_REGION"}

EnvValues == {Unset, "", "set"}

Nil == "nil"

\* ObfuscatePath has not been applied yet
NotApplied == <<-1>>

VARIABLES
  pc,         \* control location of the process
  environ,    \* the process environment
  args,       \* os.Args
  fsTree,     \* the entries of the directory tree at the root argument
  err,        \* main's err
  bucketName, \* main's bucketName
  region,     \* main's region
  folderPath, \* main's folderPath
  stack,      \* the frames of filepath.Walk's recursion
  cb,         \* the arguments of the running callback invocation
  objectKey,  \* UploadFile's objectKey
  putErr,     \* UploadFile's err after PutObject
  handles,    \* the open local file handles
  stdout,     \* the lines printed
  s3calls,    \* the PutObject requests issued
  events,     \* history: what the walk did, in order
  exit,       \* "running", "ok" (status 0) or "fatal" (log.Fatal)
  fatalMsg,   \* the message of log.Fatal
  hashMemo,   \* the digests of KnownSegments, computed once
  obfSegs,    \* ObfuscatePath alone: the segments drawn
  obfIn,      \* ObfuscatePath alone: the path given to it
  obfOut      \* ObfuscatePath alone: its result

progVars ==
  <<pc, environ, args, fsTree, err, bucketName, region, folderPath, stack, cb,
    objectKey, putErr, handles, stdout, s3calls, events, exit, fatalMsg>>

pureVars == <<obfSegs, obfIn, obfOut>>

vars == <<progVars, hashMemo, pureVars>>

(***************************************************************************)
(* HashFolderName and ObfuscatePath (main.go 18-34).                       *)
(***************************************************************************)
HashFolderName(folderName) ==
  IF folderName \in DOMAIN hashMemo THEN hashMemo[folderName]
  ELSE HashFolderNameCompute(folderName)

RECURSIVE HashParts(_)
\* the loop of lines 29-31
HashParts(parts) ==
  IF parts = << >> THEN << >>
  ELSE <<HashFolderName(Head(parts))>> \o HashParts(Tail(parts))

\* faulty variant: empty segments are dropped before hashing
ObfuscatePathSkipsEmpty(originalPath) ==
  StringsJoin(HashParts(SelectSeq(StringsSplit(originalPath, Separator),
                                  LAMBDA p : p # Empty)), Separator)

ObfuscatePath(originalPath) ==
  StringsJoin(HashParts(StringsSplit(originalPath, Separator)), Separator)

(***************************************************************************)
(* The file system as the process sees it through path strings.            *)
(***************************************************************************)
\* the name the operating system knows entry e by, given the root argument
OsPath(root, e) == StringsJoin(<<root>> \o e.rel, Separator)

\* the entries a path string resolves to (at most one)
Lookup(root, path) ==
  {e \in fsTree : FilepathClean(OsPath(root, e)) = FilepathClean(path)}

\* readDirNames: the sorted names of the entries of a directory
ReadDirNames(root, path) ==
  SortStrings({c.rel[Len(c.rel)] :
                 c \in {x \in fsTree :
                          /\ x.rel # << >>
                          /\ [rel |-> ParentRel(x.rel), kind |-> "dir"]
                               \in Lookup(root, path)}})

FileContent(e) == [contentOf |-> e.rel]

NoCb == [path |-> Empty, isDir |-> FALSE, err |-> Nil, names |-> << >>]

Event(ev, path, res) == [ev |-> ev, path |-> path, res |-> res]

(***************************************************************************)
(* Initial states: the process has just started.                           *)
(***************************************************************************)
HashTable == [s \in KnownSegments |-> HashFolderNameCompute(s)]

\* a root that names a regular file is "r"; "." and "/r/" name directories
InputTrees(a) ==
  IF Len(a) < 2 THEN {{RootDir}}
  ELSE IF a[2] = NameR THEN Trees \cup {{RootFile}}
  ELSE Trees

Init ==
  /\ hashMemo = HashTable
  /\ pc = "main_load"
  /\ environ \in [EnvVars -> EnvValues]
  /\ args \in {<<"prog">>} \cup {<<"prog", r>> : r \in Roots}
  /\ fsTree \in InputTrees(args)
  /\ err = Nil
  /\ bucketName = ""
  /\ region = ""
  /\ folderPath = Empty
  /\ stack = << >>
  /\ cb = NoCb
  /\ objectKey = Empty
  /\ putErr = Nil
  /\ handles = {}
  /\ stdout = << >>
  /\ s3calls = << >>
  /\ events = << >>
  /\ exit = "running"
  /\ fatalMsg = ""
  /\ obfSegs = << >>
  /\ obfIn = Empty
  /\ obfOut = NotApplied

\* log.Fatal: print the message and exit with status 1
Fatal(msg) ==
  /\ exit' = "fatal"
  /\ fatalMsg' = msg
  /\ pc' = "exited"

(***************************************************************************)
(* main (lines 92-121).                                                    *)
(***************************************************************************)
\* the .env file of the working directory: absent, or its assignments
DotenvFiles ==
  {[present |-> FALSE, vars |-> [k \in EnvVars |-> Unset]]}
    \cup {[present |-> TRUE, vars |-> v] : v \in [EnvVars -> EnvValues]}

\* godotenv.Load(): a variable the environment already has is not overridden
MergeEnv(file) ==
  [k \in EnvVars |->
     IF environ[k] # Unset THEN environ[k] ELSE file.vars[k]]

\* godotenv.Load(): the error of opening the file, if any
LoadError(file) == IF file.present THEN Nil ELSE "ENOENT"

\* faulty variant: the load error is recorded but main goes on
LoadDotenvLenient ==
  /\ pc = "main_load"
  /\ \E file \in DotenvFiles :
       /\ err' = LoadError(file)
       /\ environ' = IF file.present THEN MergeEnv(file) ELSE environ
       /\ pc' = "main_getenv"
       /\ UNCHANGED <<exit, fatalMsg>>
  /\ UNCHANGED <<args, fsTree, bucketName, region, folderPath, stack, cb,
                 objectKey, putErr, handles, stdout, s3calls, events>>
  /\ UNCHANGED <<hashMemo, pureVars>>

\* lines 94-97
LoadDotenv ==
  /\ pc = "main_load"
  /\ \E file \in DotenvFiles :
       /\ err' = LoadError(file)
       /\ IF err' # Nil
            THEN /\ Fatal("Error loading .env file")
                 /\ UNCHANGED environ
            ELSE /\ environ' = MergeEnv(file)
                 /\ pc' = "main_getenv"
                 /\ UNCHANGED <<exit, fatalMsg>>
  /\ UNCHANGED <<args, fsTree, bucketName, region, folderPath, stack, cb,
                 objectKey, putErr, handles, stdout, s3calls, events>>
  /\ UNCHANGED <<hashMemo, pureVars>>

\* os.Getenv: the empty string for a variable that is not set
Getenv(k) == IF environ[k] = Unset THEN "" ELSE environ[k]

\* faulty variant: fatal only when both values are empty
EnvIncompleteBoth(b, r) == b = "" /\ r = ""

EnvIncomplete(b, r) == b = "" \/ r = ""

\* lines 100-105
ReadEnv ==
  /\ pc = "main_getenv"
  /\ bucketName' = Getenv("S3_BUCKET_NAME")
  /\ region' = Getenv("AWS_REGION")
  /\ IF EnvIncomplete(bucketName', region')
       THEN Fatal("Error: S3_BUCKET_NAME and AWS_REGION must be set in the .env file")
       ELSE /\ pc' = "main_args"
            /\ UNCHANGED <<exit, fatalMsg>>
  /\ UNCHANGED <<environ, args, fsTree, err, folderPath, stack, cb,
                 objectKey, putErr, handles, stdout, s3calls, events>>
  /\ UNCHANGED <<hashMemo, pureVars>>

\* lines 108-112
CheckArgs ==
  /\ pc = "main_args"
  /\ IF Len(args) < 2
       THEN /\ Fatal("Usage: go run main.go <folder-path>")
            /\ UNCHANGED folderPath
       ELSE /\ folderPath' = args[2]
            /\ pc' = "walk_root"
            /\ UNCHANGED <<exit, fatalMsg>>
  /\ UNCHANGED <<environ, args, fsTree, err, bucketName, region, stack, cb,
                 objectKey, putErr, handles, stdout, s3calls, events>>
  /\ UNCHANGED <<hashMemo, pureVars>>

\* lines 116-120
MainResult ==
  /\ pc = "main_result"
  /\ IF err # Nil
       THEN /\ Fatal("Upload failed:")
            /\ UNCHANGED stdout
       ELSE /\ stdout' = Append(stdout, [line |-> "All files uploaded successfully!"])
            /\ exit' = "ok"
            /\ pc' = "exited"
            /\ UNCHANGED fatalMsg
  /\ UNCHANGED <<environ, args, fsTree, err, bucketName, region, folderPath,
                 stack, cb, objectKey, putErr, handles, s3calls, events>>
  /\ UNCHANGED <<hashMemo, pureVars>>

(***************************************************************************)
(* filepath.Walk, called by UploadFolder (line 76).                        *)
(***************************************************************************)
\* Lstat of path, then walk(path, info): the callback is invoked with the
\* Lstat error, or for a directory with the result of readDirNames
Visit(path) ==
  /\ \E lerr \in {Nil, "lstat"} :
       IF lerr # Nil \/ Lookup(folderPath, path) = {}
         THEN cb' = [path |-> path, isDir |-> FALSE, err |-> "lstat", names |-> << >>]
         ELSE LET e == CHOOSE x \in Lookup(folderPath, path) : TRUE
              IN  IF e.kind # "dir"
                    THEN cb' = [path |-> path, isDir |-> FALSE, err |-> Nil,
                                names |-> << >>]
                    ELSE \E rerr \in {Nil, "readdir"} :
                           cb' = [path |-> path, isDir |-> TRUE, err |-> rerr,
                                  names |-> IF rerr = Nil
                                              THEN ReadDirNames(folderPath, path)
                                              ELSE << >>]
  /\ events' = Append(events, Event("visit", path, cb'.err))
  /\ pc' = "callback"

\* Walk: Lstat(root), then the callback or walk(root, info)
WalkRoot ==
  /\ pc = "walk_root"
  /\ Visit(folderPath)
  /\ UNCHANGED <<environ, args, fsTree, err, bucketName, region, folderPath,
                 stack, objectKey, putErr, handles, stdout, s3calls, exit,
                 fatalMsg>>
  /\ UNCHANGED <<hashMemo, pureVars>>

\* walk's loop: the next name of the directory on top of the stack
WalkEntry ==
  /\ pc = "walk_next"
  /\ stack # << >>
  /\ stack[Len(stack)].names # << >>
  /\ LET top == stack[Len(stack)]
     IN  /\ stack' = [stack EXCEPT ![Len(stack)].names = Tail(top.names)]
         /\ Visit(FilepathJoin(top.path, Head(top.names)))
  /\ UNCHANGED <<environ, args, fsTree, err, bucketName, region, folderPath,
                 objectKey, putErr, handles, stdout, s3calls, exit, fatalMsg>>
  /\ UNCHANGED <<hashMemo, pureVars>>

\* walk's loop is over for the directory on top of the stack
WalkPop ==
  /\ pc = "walk_next"
  /\ stack # << >>
  /\ stack[Len(stack)].names = << >>
  /\ stack' = SubSeq(stack, 1, Len(stack) - 1)
  /\ UNCHANGED <<pc, environ, args, fsTree, err, bucketName, region, folderPath,
                 cb, objectKey, putErr, handles, stdout, s3calls, events, exit,
                 fatalMsg>>
  /\ UNCHANGED <<hashMemo, pureVars>>

\* Walk returns nil, UploadFolder returns it to main (line 115)
WalkReturn ==
  /\ pc = "walk_next"
  /\ stack = << >>
  /\ err' = Nil
  /\ pc' = "main_result"
  /\ UNCHANGED <<environ, args, fsTree, bucketName, region, folderPath, stack,
                 cb, objectKey, putErr, handles, stdout, s3calls, events, exit,
                 fatalMsg>>
  /\ UNCHANGED <<hashMemo, pureVars>>

\* a non-nil error of the callback ends walk at every level: Walk returns it
ReturnError(e) ==
  /\ err' = e
  /\ stack' = << >>
  /\ pc' = "main_result"

(***************************************************************************)
(* The callback of UploadFolder (lines 76-89).                             *)
(***************************************************************************)
\* lines 77-79
CallbackErr ==
  /\ pc = "callback"
  /\ cb.err # Nil
  /\ ReturnError(cb.err)
  /\ UNCHANGED <<environ, args, fsTree, bucketName, region, folderPath, cb,
                 objectKey, putErr, handles, stdout, s3calls, events, exit,
                 fatalMsg>>
  /\ UNCHANGED <<hashMemo, pureVars>>

\* faulty variant: no IsDir check, a directory is uploaded like a file
CallbackDirAsFile ==
  /\ pc = "callback"
  /\ cb.err = Nil
  /\ cb.isDir
  /\ stack' = Append(stack, [path |-> cb.path, names |-> cb.names])
  /\ events' = Append(events, Event("print", cb.path, Nil))
  /\ pc' = "upload_session"
  /\ UNCHANGED <<environ, args, fsTree, err, bucketName, region, folderPath, cb,
                 objectKey, putErr, handles, stdout, s3calls, exit, fatalMsg>>
  /\ UNCHANGED <<hashMemo, pureVars>>

\* lines 82-84; walk then iterates over the names of the directory
CallbackDir ==
  /\ pc = "callback"
  /\ cb.err = Nil
  /\ cb.isDir
  /\ stack' = Append(stack, [path |-> cb.path, names |-> cb.names])
  /\ pc' = "walk_next"
  /\ UNCHANGED <<environ, args, fsTree, err, bucketName, region, folderPath, cb,
                 objectKey, putErr, handles, stdout, s3calls, events, exit,
                 fatalMsg>>
  /\ UNCHANGED <<hashMemo, pureVars>>

ProgressLine(path) ==
  [line |-> "Uploading:", path |-> path, obfuscated |-> ObfuscatePath(path)]

\* faulty variant: UploadFile is called without the progress line
CallbackFileNoPrint ==
  /\ pc = "callback"
  /\ cb.err = Nil
  /\ ~cb.isDir
  /\ pc' = "upload_session"
  /\ UNCHANGED <<environ, args, fsTree, err, bucketName, region, folderPath,
                 stack, cb, objectKey, putErr, handles, stdout, s3calls, events,
                 exit, fatalMsg>>
  /\ UNCHANGED <<hashMemo, pureVars>>

\* line 87, then the call of UploadFile
CallbackFile ==
  /\ pc = "callback"
  /\ cb.err = Nil
  /\ ~cb.isDir
  /\ stdout' = Append(stdout, ProgressLine(cb.path))
  /\ events' = Append(events, Event("print", cb.path, Nil))
  /\ pc' = "upload_session"
  /\ UNCHANGED <<environ, args, fsTree, err, bucketName, region, folderPath,
                 stack, cb, objectKey, putErr, handles, s3calls, exit, fatalMsg>>
  /\ UNCHANGED <<hashMemo, pureVars>>

(***************************************************************************)
(* UploadFile (lines 37-72).                                               *)
(***************************************************************************)
\* lines 38-45
UploadSession ==
  /\ pc = "upload_session"
  /\ \E r \in {Nil, "session"} :
       /\ events' = Append(events, Event("session", cb.path, r))
       /\ IF r # Nil
            THEN ReturnError(r)
            ELSE /\ pc' = "upload_open"
                 /\ UNCHANGED <<err, stack>>
  /\ UNCHANGED <<environ, args, fsTree, bucketName, region, folderPath, cb,
                 objectKey, putErr, handles, stdout, s3calls, exit, fatalMsg>>
  /\ UNCHANGED <<hashMemo, pureVars>>

\* faulty variant: the directory of the walk path is hashed, not the relative one
ObjectKeyNoRel(originalFolder, filePath) ==
  ObfuscatePath(FilepathDir(filePath)) \o SepStr \o FilepathBase(filePath)

\* faulty variant: a file directly under the root gets its bare name as key
ObjectKeyBareAtRoot(originalFolder, filePath) ==
  LET fileName == FilepathBase(filePath)
      dir == FilepathDir(FilepathRel(originalFolder, filePath).path)
  IN  IF dir = Dot THEN fileName
      ELSE ObfuscatePath(dir) \o SepStr \o fileName

\* faulty variant: only the last directory of the relative path is hashed
ObjectKeyLastDirOnly(originalFolder, filePath) ==
  LET fileName == FilepathBase(filePath)
      dir == FilepathDir(FilepathRel(originalFolder, filePath).path)
  IN  HashFolderName(FilepathBase(dir)) \o SepStr \o fileName

\* lines 48-55: the error of filepath.Rel is dropped
ObjectKey(originalFolder, filePath) ==
  LET fileName == FilepathBase(filePath)
      relativePath == FilepathRel(originalFolder, filePath).path
      obfuscatedFolderPath == ObfuscatePath(FilepathDir(relativePath))
  IN  obfuscatedFolderPath \o SepStr \o fileName

\* lines 48-62
UploadOpen ==
  /\ pc = "upload_open"
  /\ objectKey' = ObjectKey(folderPath, cb.path)
  /\ \E r \in {Nil, "open"} :
       LET found == Lookup(folderPath, cb.path)
           res == IF found = {} THEN "open" ELSE r
       IN  /\ events' = Append(events, Event("open", cb.path, res))
           /\ IF res # Nil
                THEN /\ ReturnError(res)
                     /\ UNCHANGED handles
                ELSE /\ handles' = handles \cup {[path |-> cb.path,
                                                  entry |-> CHOOSE x \in found : TRUE]}
                     /\ pc' = "upload_put"
                     /\ UNCHANGED <<err, stack>>
  /\ UNCHANGED <<environ, args, fsTree, bucketName, region, folderPath, cb,
                 putErr, stdout, s3calls, exit, fatalMsg>>
  /\ UNCHANGED <<hashMemo, pureVars>>

\* the handle UploadFile opened
FileHandle == CHOOSE h \in handles : h.path = cb.path

\* lines 65-69
UploadPut ==
  /\ pc = "upload_put"
  /\ \E r \in {Nil, "put"} :
       /\ s3calls' = Append(s3calls, [bucket |-> bucketName, region |-> region,
                                      key |-> objectKey,
                                      body |-> FileContent(FileHandle.entry),
                                      res |-> r])
       /\ events' = Append(events, Event("put", cb.path, r))
       /\ putErr' = r
  /\ pc' = "upload_return"
  /\ UNCHANGED <<environ, args, fsTree, err, bucketName, region, folderPath,
                 stack, cb, objectKey, handles, stdout, exit, fatalMsg>>
  /\ UNCHANGED <<hashMemo, pureVars>>

\* faulty variant: the error of PutObject is dropped and the walk goes on
UploadReturnIgnoresError ==
  /\ pc = "upload_return"
  /\ handles' = handles \ {FileHandle}
  /\ events' = Append(events, Event("close", cb.path, Nil))
  /\ pc' = "walk_next"
  /\ UNCHANGED <<err, stack>>
  /\ UNCHANGED <<environ, args, fsTree, bucketName, region, folderPath, cb,
                 objectKey, putErr, stdout, s3calls, exit, fatalMsg>>
  /\ UNCHANGED <<hashMemo, pureVars>>

\* faulty variant: the file is closed on the success path only
UploadReturnLeaksOnError ==
  /\ pc = "upload_return"
  /\ IF putErr # Nil
       THEN /\ ReturnError(putErr)
            /\ UNCHANGED <<handles, events>>
       ELSE /\ handles' = handles \ {FileHandle}
            /\ events' = Append(events, Event("close", cb.path, Nil))
            /\ pc' = "walk_next"
            /\ UNCHANGED <<err, stack>>
  /\ UNCHANGED <<environ, args, fsTree, bucketName, region, folderPath, cb,
                 objectKey, putErr, stdout, s3calls, exit, fatalMsg>>
  /\ UNCHANGED <<hashMemo, pureVars>>

\* line 71, with the deferred file.Close() of line 62
UploadReturn ==
  /\ pc = "upload_return"
  /\ handles' = handles \ {FileHandle}
  /\ events' = Append(events, Event("close", cb.path, Nil))
  /\ IF putErr # Nil
       THEN ReturnError(putErr)
       ELSE /\ pc' = "walk_next"
            /\ UNCHANGED <<err, stack>>
  /\ UNCHANGED <<environ, args, fsTree, bucketName, region, folderPath, cb,
                 objectKey, putErr, stdout, s3calls, exit, fatalMsg>>
  /\ UNCHANGED <<hashMemo, pureVars>>

Next ==
  \/ LoadDotenv
  \/ ReadEnv
  \/ CheckArgs
  \/ WalkRoot
  \/ WalkEntry
  \/ WalkPop
  \/ WalkReturn
  \/ CallbackErr
  \/ CallbackDir
  \/ CallbackFile
  \/ UploadSession
  \/ UploadOpen
  \/ UploadPut
  \/ UploadReturn
  \/ MainResult

Spec == Init /\ [][Next]_vars

(***************************************************************************)
(* ObfuscatePath as a pure function: the path is drawn as the join of up   *)
(* to MaxSegs segments, so an empty first segment (a leading separator),   *)
(* empty inner and last segments and repeated names all occur.             *)
(***************************************************************************)
SegmentLists == UNION {[1..n -> KnownSegments] : n \in 1..MaxSegs}

InitPath ==
  /\ hashMemo = HashTable
  /\ pc = "pure"
  /\ obfSegs \in SegmentLists
  /\ obfIn = StringsJoin(obfSegs, Separator)
  /\ obfOut = NotApplied
  /\ environ = [k \in EnvVars |-> Unset]
  /\ args = <<"prog">>
  /\ fsTree = {RootDir}
  /\ err = Nil
  /\ bucketName = ""
  /\ region = ""
  /\ folderPath = Empty
  /\ stack = << >>
  /\ cb = NoCb
  /\ objectKey = Empty
  /\ putErr = Nil
  /\ handles = {}
  /\ stdout = << >>
  /\ s3calls = << >>
  /\ events = << >>
  /\ exit = "running"
  /\ fatalMsg = ""

ApplyObfuscatePath ==
  /\ pc = "pure"
  /\ obfOut = NotApplied
  /\ obfOut' = ObfuscatePath(obfIn)
  /\ UNCHANGED <<obfSegs, obfIn, hashMemo, progVars>>

NextPath == ApplyObfuscatePath

SpecPath == InitPath /\ [][NextPath]_vars

(***************************************************************************)
(* Definitions the properties are stated with.                             *)
(***************************************************************************)
FileEntries == {e \in fsTree : e.kind = "file"}

\* the entry a path of the walk names
EntryAt(path) == CHOOSE e \in Lookup(folderPath, path) : TRUE

EventsOf(kind) == SelectSeq(events, LAMBDA x : x.ev = kind)

\* the i-th PutObject request was issued for the path of the i-th put event
PutPath(i) == EventsOf("put")[i].path

Failed(i) == events[i].res # Nil

ConfigMessages ==
  {"Error loading .env file",
   "Error: S3_BUCKET_NAME and AWS_REGION must be set in the .env file",
   "Usage: go run main.go <folder-path>"}

SuccessLine == [line |-> "All files uploaded successfully!"]

Printed(line) == \E i \in 1..Len(stdout) : stdout[i] = line

\* the digest of a segment, read from the table of Sum256 digests
Digest(seg) == hashMemo[seg]

RECURSIVE ExpectedKey(_)
\* hash(d1)/.../hash(dn)/basename for the names d1..dn, basename
ExpectedKey(rel) ==
  IF Len(rel) = 1 THEN rel[1]
  ELSE Digest(rel[1]) \o SepStr \o ExpectedKey(Tail(rel))

\* C1: the first error of any kind (a traversal error handed to the
\* callback, a session, open or put error) is the last thing the walk does:
\* nothing follows it but the deferred close of the file whose put failed,
\* no PutObject is issued afterwards, the error is what main receives, and
\* the run ends in log.Fatal("Upload failed:"), never in the success line.
C1_FirstErrorStopsWalk ==
  /\ Len(s3calls) = Len(EventsOf("put"))
  /\ \A i \in 1..Len(events) :
       Failed(i) =>
         /\ \A j \in (i + 1)..Len(events) :
              /\ j = i + 1
              /\ events[i].ev = "put"
              /\ events[j].ev = "close"
              /\ events[j].path = events[i].path
         /\ \A k \in 1..Len(s3calls) : s3calls[k].res # Nil => k = Len(s3calls)
         /\ pc \in {"callback", "upload_return", "main_result", "exited"}
         /\ pc = "main_result" => err = events[i].res
         /\ pc = "exited" =>
              /\ exit = "fatal"
              /\ fatalMsg = "Upload failed:"
              /\ err = events[i].res
              /\ ~Printed(SuccessLine)

\* three files, the put of the second one failed, the third was never tried
C1_Witness ==
  /\ exit = "fatal"
  /\ Cardinality(FileEntries) = 3
  /\ Len(s3calls) = 2
  /\ s3calls[1].res = Nil
  /\ s3calls[2].res = "put"
  /\ Len(EventsOf("visit")) < Cardinality(fsTree)

\* C2: for a file at least one directory below the root, the key of its
\* PutObject request is hash(d1)/.../hash(dn)/basename, d1..dn the directory
\* names below the root, the basename unhashed, and the body is the content
\* of that file.
C2_NestedFileKey ==
  \A i \in 1..Len(s3calls) :
    LET e == EntryAt(PutPath(i))
    IN  Len(e.rel) >= 2 =>
          /\ s3calls[i].key = ExpectedKey(e.rel)
          /\ s3calls[i].body = FileContent(e)
          /\ e.kind = "file"

\* a/b/f has been put under hash("a")/hash("b")/f
C2_Witness ==
  \E i \in 1..Len(s3calls) :
    /\ EntryAt(PutPath(i)).rel = <<NameA, NameB, NameF>>
    /\ s3calls[i].key = Digest(NameA) \o SepStr \o Digest(NameB) \o SepStr \o NameF
    /\ s3calls[i].res = Nil

\* the base name of a file whose relative directory is "."
RootLevelBase(e) == IF e.rel = << >> THEN FilepathBase(folderPath) ELSE e.rel[1]

\* C3: for a file directly under the root (or the root itself, when the
\* root is a regular file) the key is hash(".")/basename: a leading segment
\* of 16 hex digits, never the bare basename.
C3_RootLevelKey ==
  \A i \in 1..Len(s3calls) :
    LET e == EntryAt(PutPath(i))
    IN  Len(e.rel) <= 1 =>
          /\ s3calls[i].key = Digest(Dot) \o SepStr \o RootLevelBase(e)
          /\ s3calls[i].key # RootLevelBase(e)
          /\ Len(s3calls[i].key) = HashLen + 1 + Len(RootLevelBase(e))

\* f directly under the root has been put under hash(".")/f
C3_Witness ==
  \E i \in 1..Len(s3calls) :
    /\ EntryAt(PutPath(i)).rel = <<NameF>>
    /\ s3calls[i].key = Digest(Dot) \o SepStr \o NameF
    /\ SubSeq(s3calls[i].key, 1, 4) = <<99, 100, 98, 52>>

SuccessfulPuts(e) ==
  {i \in 1..Len(s3calls) :
     s3calls[i].body = FileContent(e) /\ s3calls[i].res = Nil}

\* C4: the run ends in success only when every regular file of the tree has
\* exactly one successful PutObject request and there are no other
\* requests; no request is ever issued for a directory.
C4_SuccessMeansAllUploaded ==
  /\ \A i \in 1..Len(s3calls) : EntryAt(PutPath(i)).kind # "dir"
  /\ exit = "ok" =>
       /\ \A e \in FileEntries : Cardinality(SuccessfulPuts(e)) = 1
       /\ Len(s3calls) = Cardinality(FileEntries)
       /\ Printed(SuccessLine)

\* success for a tree with files at the root and in a directory, and with an
\* empty directory beside them
C4_Witness ==
  /\ exit = "ok"
  /\ fsTree = {RootDir, [rel |-> <<NameA>>, kind |-> "dir"],
               [rel |-> <<NameA, NameF>>, kind |-> "file"],
               [rel |-> <<NameB>>, kind |-> "dir"],
               [rel |-> <<NameF>>, kind |-> "file"]}
  /\ Len(s3calls) = 2

\* C5: at most one file handle is open; it is open only between the open
\* and the return of one UploadFile call; an opened file is put and closed
\* before anything else happens, also when the put fails.
C5_OneScopedHandle ==
  /\ Cardinality(handles) <= 1
  /\ handles # {} <=> pc \in {"upload_put", "upload_return"}
  /\ \A h \in handles : h.path = cb.path
  /\ \A i \in 1..Len(events) :
       (events[i].ev = "open" /\ events[i].res = Nil) =>
         /\ i + 1 <= Len(events) =>
              events[i + 1].ev = "put" /\ events[i + 1].path = events[i].path
         /\ i + 2 <= Len(events) =>
              events[i + 2].ev = "close" /\ events[i + 2].path = events[i].path
         /\ i + 2 > Len(events) => handles # {}
  /\ Len(EventsOf("close")) + Cardinality(handles)
       = Len(SelectSeq(events, LAMBDA x : x.ev = "open" /\ x.res = Nil))

\* the second file is open after the first one was put and closed, and the
\* run has ended with a failed put whose handle was released
C5_Witness ==
  /\ exit = "fatal"
  /\ handles = {}
  /\ Len(EventsOf("close")) = 2
  /\ Len(s3calls) = 2
  /\ s3calls[2].res = "put"

BadConfig ==
  \/ Getenv("S3_BUCKET_NAME") = ""
  \/ Getenv("AWS_REGION") = ""
  \/ Len(args) < 2

\* C6: with an empty bucket name, an empty region or no root argument, main
\* ends in log.Fatal before UploadFolder: nothing is visited, opened or put.
C6_ConfigErrorBeforeWalk ==
  BadConfig =>
    /\ events = << >>
    /\ s3calls = << >>
    /\ handles = {}
    /\ stdout = << >>
    /\ stack = << >>
    /\ pc \in {"main_load", "main_getenv", "main_args", "exited"}
    /\ pc = "exited" => exit = "fatal" /\ fatalMsg \in ConfigMessages

\* the bucket is set, the region is empty, a root is given: fatal
C6_Witness ==
  /\ exit = "fatal"
  /\ bucketName = "set"
  /\ region = ""
  /\ Len(args) = 2
  /\ fatalMsg = "Error: S3_BUCKET_NAME and AWS_REGION must be set in the .env file"

EnvComplete == environ["S3_BUCKET_NAME"] = "set" /\ environ["AWS_REGION"] = "set"

\* C7 as stated: with the .env file absent, both variables set in the
\* process environment and a root argument given, main does not terminate
\* with a configuration error.
C7_AbsentFileProceeds ==
  (err = "ENOENT" /\ EnvComplete /\ Len(args) >= 2) => exit # "fatal"

\* C7 as amended: the .env file is required.  When it is absent main ends in
\* log.Fatal("Error loading .env file") without invoking UploadFolder, also
\* when both variables are set in the process environment and a root
\* argument is given.
C7_DotenvRequired ==
  err = "ENOENT" =>
    /\ pc = "exited"
    /\ exit = "fatal"
    /\ fatalMsg = "Error loading .env file"
    /\ bucketName = "" /\ region = ""
    /\ events = << >>
    /\ s3calls = << >>

C7_Witness ==
  /\ err = "ENOENT"
  /\ EnvComplete
  /\ Len(args) = 2
  /\ exit = "fatal"

\* C8: ObfuscatePath of the join of the segments s1..sn is the join of
\* their digests: n segments of HashLen hex digits in the same order,
\* separated by "/", the i-th being the digest of si alone (an empty
\* segment included).
C8_SegmentWise ==
  obfOut # NotApplied =>
    LET n == Len(obfSegs)
    IN  /\ Len(obfOut) = n * (HashLen + 1) - 1
        /\ \A i \in 1..n :
             /\ SubSeq(obfOut, (i - 1) * (HashLen + 1) + 1,
                       (i - 1) * (HashLen + 1) + HashLen) = Digest(obfSegs[i])
             /\ i < n => obfOut[i * (HashLen + 1)] = Separator
        /\ \A i, j \in 1..n :
             obfSegs[i] = obfSegs[j] =>
               SubSeq(obfOut, (i - 1) * (HashLen + 1) + 1,
                      (i - 1) * (HashLen + 1) + HashLen)
                 = SubSeq(obfOut, (j - 1) * (HashLen + 1) + 1,
                          (j - 1) * (HashLen + 1) + HashLen)

\* "/a/a": an empty first segment and the same name at two depths
C8_Witness ==
  /\ obfOut # NotApplied
  /\ obfSegs = <<Empty, NameA, NameA>>
  /\ obfIn = <<Separator, 97, Separator, 97>>

\* the segments of the path the walk hands to the callback for entry e
WalkSegments(e) ==
  IF e.rel = << >>
    THEN (IF folderPath = NameR THEN <<NameR>>
          ELSE IF folderPath = Dot THEN <<Dot>>
          ELSE <<Empty, NameR, Empty>>)
  ELSE (IF folderPath = NameR THEN <<NameR>>
        ELSE IF folderPath = Dot THEN << >>
        ELSE <<Empty, NameR>>) \o e.rel

RECURSIVE DigestJoin(_)
DigestJoin(segs) ==
  IF Len(segs) = 1 THEN Digest(segs[1])
  ELSE Digest(segs[1]) \o SepStr \o DigestJoin(Tail(segs))

\* C9: a file handed to the callback without error gets its progress line
\* (its path and the obfuscation of that path) at once, before the session,
\* the open and the put of that file; one line per file; none for a
\* directory or for an entry handed over with an error.
C9_ProgressLineFirst ==
  LET prints == EventsOf("print")
      lines == SelectSeq(stdout, LAMBDA l : l.line = "Uploading:")
  IN  /\ Len(lines) = Len(prints)
      /\ \A k \in 1..Len(prints) :
           /\ lines[k].path = prints[k].path
           /\ lines[k].obfuscated = DigestJoin(WalkSegments(EntryAt(prints[k].path)))
           /\ \A m \in 1..Len(prints) : prints[m].path = prints[k].path => m = k
      /\ \A i \in 1..Len(events) :
           /\ (events[i].ev = "visit" /\ events[i].res = Nil
                 /\ EntryAt(events[i].path).kind = "file" /\ i < Len(events))
                => (events[i + 1].ev = "print" /\ events[i + 1].path = events[i].path)
           /\ events[i].ev = "print" =>
                /\ i > 1
                /\ events[i - 1].ev = "visit"
                /\ events[i - 1].path = events[i].path
                /\ events[i - 1].res = Nil
                /\ EntryAt(events[i].path).kind = "file"
           /\ events[i].ev \in {"session", "open", "put"} =>
                \E j \in 1..(i - 1) :
                  events[j].ev = "print" /\ events[j].path = events[i].path
      /\ pc \in {"upload_session", "upload_open", "upload_put", "upload_return"} =>
           (Len(prints) > 0 /\ prints[Len(prints)].path = cb.path)

\* two files were printed and put; a directory was visited without a line
C9_Witness ==
  /\ Len(EventsOf("print")) = 2
  /\ Len(s3calls) = 2
  /\ Len(EventsOf("visit")) > 3
  /\ stdout[1] = [line |-> "Uploading:", path |-> <<Separator>> \o NameR \o SepStr
                     \o NameA \o SepStr \o NameF,
                  obfuscated |-> Digest(Empty) \o SepStr \o Digest(NameR) \o SepStr
                     \o Digest(NameA) \o SepStr \o Digest(NameF)]

\* the names of the directories of the tree, and the marker "."
DirSegments == {e.rel[Len(e.rel)] : e \in {x \in fsTree : x.kind = "dir" /\ x.rel # << >>}}
                 \cup {Dot}

HashInjective ==
  \A x, y \in DirSegments : HashFolderName(x) = HashFolderName(y) => x = y

\* C10: when the hash is injective on the directory names of the tree and
\* ".", the keys of the PutObject requests of one run are pairwise distinct:
\* no request overwrites the object of an earlier one.
C10_DistinctKeys ==
  HashInjective =>
    \A i, j \in 1..Len(s3calls) : s3calls[i].key = s3calls[j].key => i = j

\* a/f and f, the same base name in two directories, put under two keys
C10_Witness ==
  /\ Len(s3calls) >= 2
  /\ s3calls[1].key = Digest(NameA) \o SepStr \o NameF
  /\ s3calls[2].key = Digest(Dot) \o SepStr \o NameF
  /\ s3calls[1].res = Nil
  /\ s3calls[2].res = Nil

====
